---- MODULE Spec2Model ----
(***************************************************************************)
(* Model of the eUPF operator charm (src/src/charm.py, charm_config.py,    *)
(* machine.py).  One step of the model is one dispatched Juju event: the   *)
(* charm object is constructed (__init__), the observed handler runs to    *)
(* completion (_configure), and the unit status is collected               *)
(* (_on_collect_status).  The host (snap, config file, service) and the    *)
(* Juju side (leadership, charm configuration) change between events.      *)
(***************************************************************************)
EXTENDS Integers, Sequences, FiniteSets, TLC

VARIABLES
    host,         \* the machine: snap, config file, service
    isLeader,     \* self.unit.is_leader()
    config,       \* charm.config: option name -> raw value
    hadToInstall, \* some reconcile pass found the snap missing and called install
    relations,    \* ids of the fiveg_n4 relations of the model
    published,    \* per relation id, what was published to it, in order
    event,        \* kind of the last dispatched event
    nEvents,      \* number of events dispatched so far
    calls,        \* host calls made by the handler of the last event, in order
    statusCalls,  \* host calls made by the status collection of the last event
    invalidFields,\* fields named by the CharmConfigInvalidError of the last event
    outcome,      \* how the handler of the last event ended
    prevOutcome,  \* how the event before it ended, "none" if something changed
                  \* between the two
    raisedAt,     \* index in calls of the call that raised, 0 if none did
    status,       \* unit status as last set by collect-status
    changed,      \* host, leadership or config changed since the last event
    streak,       \* reconcile passes completed in a row with no change between
    proc,         \* the external command started by Machine.exec, if any
    execResult    \* how ExecProcess.wait_output ended for it

vars == <<host, isLeader, config, event, nEvents, calls, statusCalls,
          invalidFields, outcome, prevOutcome, raisedAt, status, changed,
          streak, hadToInstall, relations, published, proc, execResult>>

----------------------------------------------------------------------------
(* Bounds *)

MaxEvents == 2

MaxRelations == 2

\* longest run time of an external command
MaxDuration == 3

\* longest timeout given to an external command
MaxTimeout == 2

----------------------------------------------------------------------------
(* Constants of charm.py *)

EUPF_SNAP_NAME == "eupf"
EUPF_SNAP_CHANNEL == "edge"
EUPF_CONFIG_FILE_NAME == "config.yaml"
EUPF_CONFIG_PATH == "/var/snap/eupf/common"
PFCP_ADDRESS == "127.0.0.1:8805"
PFCP_PORT == 8805
N3_ADDRESS == "127.0.0.1"
INTERFACE_NAME == "lo"
PROMETHEUS_PORT == 9090

\* f"{EUPF_CONFIG_PATH}/{EUPF_CONFIG_FILE_NAME}"
ConfigFilePath == <<EUPF_CONFIG_PATH, EUPF_CONFIG_FILE_NAME>>

----------------------------------------------------------------------------
(* YAML text.  A text is a sequence of lines; a line carries a key, a      *)
(* scalar token and the amount of insignificant whitespace it was written  *)
(* with.  A line whose key is "{" is an unterminated flow mapping, which   *)
(* the YAML parser rejects.                                                *)

Line(k, v, sp) == [k |-> k, v |-> v, sp |-> sp]

BadLine == Line("{", "", 0)

\* src/templates/config.yaml.j2: one line per template variable
Template == <<"pfcp_address", "n3_address", "interface_name", "metrics_port">>

render_upf_config_file(pfcp_address, n3_address, interface_name, metrics_port) ==
    LET value == [pfcp_address   |-> pfcp_address,
                  n3_address     |-> n3_address,
                  interface_name |-> interface_name,
                  metrics_port   |-> ToString(metrics_port)]
    IN  [i \in 1..Len(Template) |-> Line(Template[i], value[Template[i]], 0)]

\* yaml.safe_load: the decoded mapping (a later duplicate key wins), the
\* empty document decoding to None (no pairs); YAMLError on a bad line.
safe_load(text) ==
    IF \E i \in 1..Len(text) : text[i].k = "{"
    THEN [err |-> TRUE, doc |-> {}]
    ELSE [err |-> FALSE,
          doc |-> { <<text[i].k, text[i].v>> : i \in
                      { j \in 1..Len(text) :
                          \A m \in (j+1)..Len(text) : text[m].k # text[j].k } }]

----------------------------------------------------------------------------
(* charm_config.py *)

\* A raw address string, already split at the dots and the slash:
\* octets (numbers; <<>> for a word such as "not-an-ip") and prefix length
\* (-1 when there is no "/n" suffix).
Addr(octets, prefix) == [octets |-> octets, prefix |-> prefix]

\* ipaddress.ip_network(value, strict=False) raises ValueError
ip_network_raises(value) ==
    \/ Len(value.octets) # 4
    \/ \E i \in 1..Len(value.octets) : value.octets[i] < 0 \/ value.octets[i] > 255
    \/ value.prefix < -1
    \/ value.prefix > 32

\* An identifier, split into its words and the characters between them.
core_ip == <<"core", "_", "ip">>
external_upf_hostname == <<"external", "_", "upf", "_", "hostname">>

\* the identifier as one string
Str(name) ==
    IF name = <<"core", "_", "ip">> THEN "core_ip"
    ELSE IF name = <<"core", "-", "ip">> THEN "core-ip"
    ELSE IF name = <<"external", "_", "upf", "_", "hostname">>
    THEN "external_upf_hostname"
    ELSE IF name = <<"external", "-", "upf", "-", "hostname">>
    THEN "external-upf-hostname"
    ELSE "?"

\* to_kebab without the replacement
to_kebab_unchanged(name) == name

\* name.replace("_", "-")
to_kebab(name) == [i \in 1..Len(name) |-> IF name[i] = "_" THEN "-" ELSE name[i]]

\* UpfConfig(**dict(charm.config.items())): the set of fields in error, each
\* named by its alias.  core_ip is required and validated;
\* external_upf_hostname is optional and any string passes.
UpfConfig_errors(cfg) ==
    LET alias == Str(to_kebab(core_ip))
    IN  IF alias \notin DOMAIN cfg THEN {alias}
        ELSE IF ip_network_raises(cfg[alias]) THEN {alias}
        ELSE {}

\* CharmConfig.from_charm: raises CharmConfigInvalidError iff validation fails
from_charm_raises(cfg) == UpfConfig_errors(cfg) # {}

----------------------------------------------------------------------------
(* Host calls.  A run r is the host as the handler sees and changes it,    *)
(* the calls made so far, the exception in flight ("none" if none) and the *)
(* index of the call that raised it.                                       *)

Call(op, arg) == [op |-> op, arg |-> arg]

Log(r, op, arg) == [r EXCEPT !.calls = Append(@, Call(op, arg))]

Raise(r, exc) == [r EXCEPT !.raised = exc, !.at = Len(r.calls)]

\* the faults a host call can hit during one event
Faults == {"ensure", "hold", "open", "write", "start"}

\* Machine.exists
exists(r, path) == Log(r, "exists", path)

\* Machine.pull
pull(r, path) == Log(r, "pull", path)

\* Machine.push: open(path, "w") creates or truncates the file, write fills it
push(r, path, source, fail) ==
    LET r1 == Log(r, "push", [path |-> path, source |-> source])
    IN  IF "open" \in fail THEN Raise(r1, "OSError")
        ELSE IF "write" \in fail
        THEN Raise([r1 EXCEPT !.host.fileExists = TRUE,
                              !.host.fileContent = <<>>], "OSError")
        ELSE [r1 EXCEPT !.host.fileExists = TRUE, !.host.fileContent = source]

\* Snap.ensure(SnapState.Latest, channel=...)
ensure(r, channel, fail) ==
    LET r1 == Log(r, "ensure", [state |-> "latest", channel |-> channel])
    IN  IF "ensure" \in fail THEN Raise(r1, "SnapError")
        ELSE [r1 EXCEPT !.host.snapState = "latest", !.host.snapChannel = channel]

\* Snap.hold()
hold(r, fail) ==
    LET r1 == Log(r, "hold", EUPF_SNAP_NAME)
    IN  IF "hold" \in fail THEN Raise(r1, "SnapError")
        ELSE [r1 EXCEPT !.host.snapHeld = TRUE]

\* Snap.start(services=[...])
start(r, services, fail) ==
    LET r1 == Log(r, "start", services)
    IN  IF "start" \in fail THEN Raise(r1, "SnapError")
        ELSE [r1 EXCEPT !.host.serviceActive = TRUE]

----------------------------------------------------------------------------
(* charm.py: convergence actions *)

_eupf_snap_installed(r) == r.host.snapState = "latest"

\* _install_eupf_snap pinning the snap whether or not the install succeeded
_install_eupf_snap_pin_anyway(r, fail) ==
    LET r0 == Log(r, "state", EUPF_SNAP_NAME)
    IN  IF _eupf_snap_installed(r0) THEN r0
        ELSE LET r1 == ensure(r0, EUPF_SNAP_CHANNEL, fail)
                 r2 == hold(r1, fail)
             IN  IF r1.raised # "none" THEN [r2 EXCEPT !.raised = r1.raised]
                 ELSE r2

\* _install_eupf_snap without the hold
_install_eupf_snap_no_hold(r, fail) ==
    LET r0 == Log(r, "state", EUPF_SNAP_NAME)
    IN  IF _eupf_snap_installed(r0) THEN r0
        ELSE ensure(r0, EUPF_SNAP_CHANNEL, fail)

_install_eupf_snap(r, fail) ==
    LET r0 == Log(r, "state", EUPF_SNAP_NAME)
    IN  IF _eupf_snap_installed(r0) THEN r0
        ELSE LET r1 == ensure(r0, EUPF_SNAP_CHANNEL, fail)
             IN  IF r1.raised # "none" THEN r1
                 ELSE hold(r1, fail)

_upf_config_file_is_written(r) == r.host.fileExists

\* _upf_config_file_content_matches comparing the texts, not what they decode to
_upf_config_file_content_matches_text(r, content) ==
    r.host.fileContent = content

_upf_config_file_content_matches(r, content) ==
    LET existing == safe_load(r.host.fileContent)
        rendered == safe_load(content)
    IN  IF existing.err \/ rendered.err THEN FALSE
        ELSE existing.doc = rendered.doc

_write_upf_config_file(r, content, fail) ==
    push(r, ConfigFilePath, content, fail)

\* _generate_config_file writing on every pass
_generate_config_file_always(r, fail) ==
    LET content == render_upf_config_file(PFCP_ADDRESS, N3_ADDRESS,
                                          INTERFACE_NAME, PROMETHEUS_PORT)
    IN  _write_upf_config_file(pull(exists(r, ConfigFilePath), ConfigFilePath),
                               content, fail)

\* _generate_config_file writing only when the file is absent
_generate_config_file_absent_only(r, fail) ==
    LET content == render_upf_config_file(PFCP_ADDRESS, N3_ADDRESS,
                                          INTERFACE_NAME, PROMETHEUS_PORT)
        r0 == exists(r, ConfigFilePath)
    IN  IF ~_upf_config_file_is_written(r0)
        THEN _write_upf_config_file(r0, content, fail)
        ELSE pull(r0, ConfigFilePath)

\* _generate_config_file letting the YAMLError of the comparison escape
_generate_config_file_raising(r, fail) ==
    LET content == render_upf_config_file(PFCP_ADDRESS, N3_ADDRESS,
                                          INTERFACE_NAME, PROMETHEUS_PORT)
        r0 == exists(r, ConfigFilePath)
    IN  IF ~_upf_config_file_is_written(r0)
        THEN _write_upf_config_file(r0, content, fail)
        ELSE LET r1 == pull(r0, ConfigFilePath)
             IN  IF safe_load(r1.host.fileContent).err
                 THEN Raise(r1, "YAMLError")
                 ELSE IF ~_upf_config_file_content_matches(r1, content)
                 THEN _write_upf_config_file(r1, content, fail)
                 ELSE r1

_generate_config_file(r, fail) ==
    LET content == render_upf_config_file(PFCP_ADDRESS, N3_ADDRESS,
                                          INTERFACE_NAME, PROMETHEUS_PORT)
        r0 == exists(r, ConfigFilePath)
    IN  IF ~_upf_config_file_is_written(r0)
        THEN _write_upf_config_file(r0, content, fail)
        ELSE LET r1 == pull(r0, ConfigFilePath)
             IN  IF ~_upf_config_file_content_matches(r1, content)
                 THEN _write_upf_config_file(r1, content, fail)
                 ELSE r1

\* _eupf_service_started reporting the service inactive when it has no way
\* to be running yet
_eupf_service_started_stale(r) == FALSE

_eupf_service_started(r) == r.host.serviceActive

_start_eupf_service(r, fail) ==
    LET r0 == Log(r, "services", EUPF_SNAP_NAME)
    IN  IF _eupf_service_started(r0) THEN r0
        ELSE start(r0, <<"eupf">>, fail)

\* _configure starting the service before the config file is generated
_configure_swapped(r, leader, fail) ==
    IF ~leader THEN r
    ELSE LET r1 == _install_eupf_snap(r, fail)
         IN  IF r1.raised # "none" THEN r1
             ELSE LET r2 == _start_eupf_service(r1, fail)
                  IN  IF r2.raised # "none" THEN r2
                      ELSE _generate_config_file(r2, fail)

\* _configure going on to the next action after an exception
_configure_swallowing(r, leader, fail) ==
    IF ~leader THEN r
    ELSE _start_eupf_service(
             _generate_config_file(_install_eupf_snap(r, fail), fail), fail)

\* _configure without the leadership gate
_configure_ungated(r, leader, fail) ==
    LET r1 == _install_eupf_snap(r, fail)
    IN  IF r1.raised # "none" THEN r1
        ELSE LET r2 == _generate_config_file(r1, fail)
             IN  IF r2.raised # "none" THEN r2
                 ELSE _start_eupf_service(r2, fail)

\* _configure catching the exception of a failed host call
_configure_catching(r, leader, fail) ==
    IF ~leader THEN r
    ELSE LET r1 == _install_eupf_snap(r, fail)
             r2 == IF r1.raised # "none" THEN r1
                   ELSE _generate_config_file(r1, fail)
             r3 == IF r2.raised # "none" THEN r2
                   ELSE _start_eupf_service(r2, fail)
         IN  [r3 EXCEPT !.raised = "none"]

_configure(r, leader, fail) ==
    IF ~leader THEN r
    ELSE LET r1 == _install_eupf_snap(r, fail)
         IN  IF r1.raised # "none" THEN r1
             ELSE LET r2 == _generate_config_file(r1, fail)
                  IN  IF r2.raised # "none" THEN r2
                      ELSE _start_eupf_service(r2, fail)

\* _on_collect_status reporting Active only when the service is active too
_on_collect_status_service(h, leader) ==
    IF ~leader THEN [status |-> "Blocked", calls |-> <<>>]
    ELSE LET r == exists([host |-> h, calls |-> <<>>, raised |-> "none", at |-> 0],
                         ConfigFilePath)
         IN  IF ~_upf_config_file_is_written(r) \/ ~h.serviceActive
             THEN [status |-> "Waiting", calls |-> r.calls]
             ELSE [status |-> "Active", calls |-> r.calls]

\* _on_collect_status reporting Active only when the snap is installed too
_on_collect_status_installed(h, leader) ==
    IF ~leader THEN [status |-> "Blocked", calls |-> <<>>]
    ELSE LET r == exists([host |-> h, calls |-> <<>>, raised |-> "none", at |-> 0],
                         ConfigFilePath)
         IN  IF ~_upf_config_file_is_written(r) \/ h.snapState # "latest"
             THEN [status |-> "Waiting", calls |-> r.calls]
             ELSE [status |-> "Active", calls |-> r.calls]

\* _on_collect_status writing the config file when it finds none
_on_collect_status_repairing(h, leader) ==
    IF ~leader THEN [status |-> "Blocked", calls |-> <<>>]
    ELSE LET r == exists([host |-> h, calls |-> <<>>, raised |-> "none", at |-> 0],
                         ConfigFilePath)
         IN  IF ~_upf_config_file_is_written(r)
             THEN [status |-> "Waiting",
                   calls |-> _generate_config_file(r, {}).calls]
             ELSE [status |-> "Active", calls |-> r.calls]

\* the status added by _on_collect_status and the host calls it makes
_on_collect_status(h, leader) ==
    IF ~leader THEN [status |-> "Blocked", calls |-> <<>>]
    ELSE LET r == exists([host |-> h, calls |-> <<>>, raised |-> "none", at |-> 0],
                         ConfigFilePath)
         IN  IF ~_upf_config_file_is_written(r)
             THEN [status |-> "Waiting", calls |-> r.calls]
             ELSE [status |-> "Active", calls |-> r.calls]

\* __init__ observing config_changed whatever the validation says
Observed_always(cfg) == {"collect_unit_status", "config_changed"}

\* CharmConfig.__init__: the typed configuration; an option that is not set
\* is None, written "" here
CharmConfig(cfg) ==
    [core_ip |-> cfg[Str(to_kebab(core_ip))],
     external_upf_hostname |->
        IF Str(to_kebab(external_upf_hostname)) \in DOMAIN cfg
        THEN cfg[Str(to_kebab(external_upf_hostname))]
        ELSE ""]

_get_n4_upf_hostname(cfg) ==
    IF CharmConfig(cfg).external_upf_hostname # ""
    THEN CharmConfig(cfg).external_upf_hostname
    ELSE CharmConfig(cfg).core_ip

\* publishes to every fiveg_n4 relation; no handler of the charm calls it
_update_fiveg_n4_relation_data(rels, cfg, pub) ==
    [rel \in DOMAIN pub |->
        IF rel \in rels
        THEN Append(pub[rel], [upf_hostname |-> _get_n4_upf_hostname(cfg),
                               upf_n4_port |-> PFCP_PORT])
        ELSE pub[rel]]

\* EupfOperatorCharm.__init__: the events the charm observes
Observed(cfg) ==
    IF from_charm_raises(cfg) THEN {"collect_unit_status"}
    ELSE {"collect_unit_status", "config_changed"}

----------------------------------------------------------------------------
(* The states the host and the Juju model can be in *)

Rendered == render_upf_config_file(PFCP_ADDRESS, N3_ADDRESS,
                                   INTERFACE_NAME, PROMETHEUS_PORT)

Reversed(s) == [i \in 1..Len(s) |-> s[Len(s) + 1 - i]]

\* contents the config file may have on the host
HostTexts ==
    { Rendered,
      Reversed(Rendered),
      [i \in 1..Len(Rendered) |-> [Rendered[i] EXCEPT !.sp = 1]],
      [Rendered EXCEPT ![2].v = "10.0.0.1"],
      SubSeq(Rendered, 1, 3),
      <<>>,
      <<Rendered[1], BadLine>> }

Hosts ==
    { h \in [snapState : {"available", "latest"},
             snapChannel : {"none", "edge", "stable"},
             snapHeld : BOOLEAN,
             fileExists : BOOLEAN,
             fileContent : HostTexts,
             serviceActive : BOOLEAN] :
        /\ (h.snapState = "available") <=> (h.snapChannel = "none")
        /\ (h.snapState = "available") => ~h.snapHeld /\ ~h.serviceActive
        /\ ~h.fileExists => h.fileContent = <<>> }

CoreIps ==
    { Addr(<<>>, -1),            \* "not-an-ip"
      Addr(<<127, 0, 0, 1>>, -1),
      Addr(<<192, 0, 2, 0>>, 24),
      Addr(<<10, 0, 0, 256>>, -1) }

Hostnames == {"upf.example.com"}

Configs ==
    LET core == {<<>>} \cup { ("core-ip" :> c) : c \in CoreIps }
        name == {<<>>} \cup { ("external-upf-hostname" :> n) : n \in Hostnames }
    IN  { c @@ n : c \in core, n \in name }

Events == {"config_changed", "update_status", "start"}

Relations == 1..MaxRelations

----------------------------------------------------------------------------
(* machine.py: ExecProcess *)

\* a timeout: None, or a number of seconds
NoTimeout == [set |-> FALSE, secs |-> 0]

Timeouts == {NoTimeout} \cup { [set |-> TRUE, secs |-> t] : t \in 1..MaxTimeout }

\* the commands, exit codes and outputs of the external commands
Commands == {"ip link", "ethtool"}

ExitCodes == {0, 1, 2}

Outputs == {"up", "down"}

\* what a killed command had written before it was killed
PartialOutput == "partial"

\* the return code of a process ended by kill(): -SIGKILL
KilledCode == 0 - 9

\* no external command was started
NoProc ==
    [state |-> "none", command |-> "", timeout |-> NoTimeout, duration |-> 0,
     exitCode |-> 0, out |-> "", returncode |-> 0, spawns |-> 0, kills |-> 0,
     communicates |-> 0]

\* wait_output was not called
NoResult == [kind |-> "none", command |-> "", exit_code |-> 0, timeout |-> 0,
             stdout |-> "", stderr |-> ""]

\* Machine.exec: subprocess.Popen(command, ...) wrapped in an ExecProcess;
\* the command will run for duration seconds, write out and exit with
\* exitCode
exec(command, timeout, duration, exitCode, out) ==
    [state |-> "running", command |-> command, timeout |-> timeout,
     duration |-> duration, exitCode |-> exitCode, out |-> out,
     returncode |-> 0, spawns |-> 1, kills |-> 0, communicates |-> 0]

\* Popen.communicate(timeout=...) raises TimeoutExpired: the command is
\* still running when the timeout is over; at the very instant either way
\* (expired tells which)
communicate_expires(p, expired) ==
    /\ p.timeout.set
    /\ \/ p.duration > p.timeout.secs
       \/ p.duration = p.timeout.secs /\ expired

\* wait_output going on to the exit-code check after the kill
wait_output_fallthrough(p, expired) ==
    IF communicate_expires(p, expired)
    THEN [proc |-> [p EXCEPT !.state = "killed", !.returncode = KilledCode,
                             !.kills = @ + 1, !.communicates = @ + 2],
          result |-> [kind |-> "ExecError", command |-> p.command,
                      exit_code |-> KilledCode, timeout |-> 0,
                      stdout |-> PartialOutput, stderr |-> ""]]
    ELSE IF p.exitCode # 0
    THEN [proc |-> [p EXCEPT !.state = "exited", !.returncode = p.exitCode,
                             !.communicates = @ + 1],
          result |-> [kind |-> "ExecError", command |-> p.command,
                      exit_code |-> p.exitCode, timeout |-> 0,
                      stdout |-> p.out, stderr |-> ""]]
    ELSE [proc |-> [p EXCEPT !.state = "exited", !.returncode = p.exitCode,
                             !.communicates = @ + 1],
          result |-> [kind |-> "returned", command |-> "", exit_code |-> 0,
                      timeout |-> 0, stdout |-> p.out, stderr |-> ""]]

\* ExecProcess.wait_output: the process afterwards and what the call
\* returned or raised
wait_output(p, expired) ==
    IF communicate_expires(p, expired)
    THEN \* kill(), communicate() again, raise TimeoutError(command, timeout)
         [proc |-> [p EXCEPT !.state = "killed", !.returncode = KilledCode,
                             !.kills = @ + 1, !.communicates = @ + 2],
          result |-> [kind |-> "TimeoutError", command |-> p.command,
                      exit_code |-> 0, timeout |-> p.timeout.secs,
                      stdout |-> "", stderr |-> ""]]
    ELSE LET done == [p EXCEPT !.state = "exited", !.returncode = p.exitCode,
                               !.communicates = @ + 1]
         IN  IF done.returncode # 0
             THEN [proc |-> done,
                   result |-> [kind |-> "ExecError", command |-> p.command,
                               exit_code |-> done.returncode, timeout |-> 0,
                               stdout |-> p.out, stderr |-> ""]]
             ELSE [proc |-> done,
                   result |-> [kind |-> "returned", command |-> "",
                               exit_code |-> 0, timeout |-> 0,
                               stdout |-> p.out, stderr |-> ""]]

----------------------------------------------------------------------------
(* The state machine *)

Init ==
    /\ host \in Hosts
    /\ isLeader \in BOOLEAN
    /\ config \in Configs
    /\ event = "none"
    /\ nEvents = 0
    /\ calls = <<>>
    /\ statusCalls = <<>>
    /\ invalidFields = {}
    /\ outcome = "none"
    /\ prevOutcome = "none"
    /\ raisedAt = 0
    /\ status = "Unknown"
    /\ changed = FALSE
    /\ streak = 0
    /\ hadToInstall = FALSE
    /\ relations = {}
    /\ published = [rel \in Relations |-> <<>>]
    /\ proc = NoProc
    /\ execResult = NoResult

\* ops.main: construct the charm, emit the event, evaluate the status
Dispatch(e, fail) ==
    LET r0 == [host |-> host, calls |-> <<>>, raised |-> "none", at |-> 0]
        ran == e \in Observed(config)
        r == IF ran THEN _configure(r0, isLeader, fail) ELSE r0
        crashed == r.raised # "none"
        st == _on_collect_status(r.host, isLeader)
    IN  /\ nEvents < MaxEvents
        /\ nEvents' = nEvents + 1
        /\ event' = e
        /\ host' = r.host
        /\ calls' = r.calls
        /\ invalidFields' = UpfConfig_errors(config)
        /\ outcome' = IF ~ran THEN "not_observed"
                      ELSE IF crashed THEN "crashed"
                      ELSE IF ~isLeader THEN "not_leader"
                      ELSE "converged"
        /\ prevOutcome' = IF changed THEN "none" ELSE outcome
        /\ status' = IF crashed THEN status ELSE st.status
        /\ statusCalls' = IF crashed THEN <<>> ELSE st.calls
        /\ raisedAt' = r.at
        /\ changed' = FALSE
        /\ streak' = IF ran /\ isLeader /\ ~crashed THEN streak + 1 ELSE 0
        /\ hadToInstall' = (hadToInstall \/ \E i \in 1..Len(r.calls) :
                                               r.calls[i].op = "ensure")
        /\ UNCHANGED <<isLeader, config, relations, published, proc, execResult>>

\* one event, with at most one host call hitting a fault (a handler stops at
\* the first exception, so one fault per event covers every run)
Trigger ==
    \E e \in Events :
        \E fail \in IF e \in Observed(config) /\ isLeader
                    THEN {{}} \cup { {f} : f \in Faults }
                    ELSE {{}} :
            Dispatch(e, fail)

\* juju config
ConfigChange ==
    /\ \E c \in Configs \ {config} : config' = c
    /\ changed' = TRUE
    /\ streak' = 0
    /\ UNCHANGED <<host, isLeader, event, nEvents, calls, statusCalls,
                   invalidFields, outcome, prevOutcome, raisedAt, status,
                   hadToInstall, relations, published, proc, execResult>>

\* leader election
LeaderChange ==
    /\ isLeader' = ~isLeader
    /\ changed' = TRUE
    /\ streak' = 0
    /\ UNCHANGED <<host, config, event, nEvents, calls, statusCalls,
                   invalidFields, outcome, prevOutcome, raisedAt, status,
                   hadToInstall, relations, published, proc, execResult>>

\* the service stops under the charm
ServiceStops ==
    /\ host.serviceActive
    /\ host' = [host EXCEPT !.serviceActive = FALSE]
    /\ changed' = TRUE
    /\ streak' = 0
    /\ UNCHANGED <<isLeader, config, event, nEvents, calls, statusCalls,
                   invalidFields, outcome, prevOutcome, raisedAt, status,
                   hadToInstall, relations, published, proc, execResult>>

\* the config file is removed under the charm
FileRemoved ==
    /\ host.fileExists
    /\ host' = [host EXCEPT !.fileExists = FALSE, !.fileContent = <<>>]
    /\ changed' = TRUE
    /\ streak' = 0
    /\ UNCHANGED <<isLeader, config, event, nEvents, calls, statusCalls,
                   invalidFields, outcome, prevOutcome, raisedAt, status,
                   hadToInstall, relations, published, proc, execResult>>

\* the config file is edited under the charm
FileEdited ==
    /\ host.fileExists
    /\ \E t \in HostTexts \ {host.fileContent} :
           host' = [host EXCEPT !.fileContent = t]
    /\ changed' = TRUE
    /\ streak' = 0
    /\ UNCHANGED <<isLeader, config, event, nEvents, calls, statusCalls,
                   invalidFields, outcome, prevOutcome, raisedAt, status,
                   hadToInstall, relations, published, proc, execResult>>

Next ==
    \/ Trigger
    \/ ConfigChange
    \/ LeaderChange
    \/ ServiceStops
    \/ FileRemoved
    \/ FileEdited

Spec == Init /\ [][Next]_vars

----------------------------------------------------------------------------
(* The charm with fiveg_n4 relations, on a host that is fresh or converged *)

InitN4 ==
    /\ host \in { h \in Hosts :
                     \/ h.snapState = "available" /\ ~h.fileExists
                     \/ /\ h.snapChannel = EUPF_SNAP_CHANNEL /\ h.snapHeld
                        /\ h.fileContent = Rendered /\ h.serviceActive }
    /\ isLeader \in BOOLEAN
    /\ config \in Configs
    /\ event = "none"
    /\ nEvents = 0
    /\ calls = <<>>
    /\ statusCalls = <<>>
    /\ invalidFields = {}
    /\ outcome = "none"
    /\ prevOutcome = "none"
    /\ raisedAt = 0
    /\ status = "Unknown"
    /\ changed = FALSE
    /\ streak = 0
    /\ hadToInstall = FALSE
    /\ relations \in SUBSET Relations
    /\ published = [rel \in Relations |-> <<>>]
    /\ proc = NoProc
    /\ execResult = NoResult

\* a consumer is related to the charm
RelationJoined ==
    /\ \E rel \in Relations \ relations : relations' = relations \cup {rel}
    /\ changed' = TRUE
    /\ streak' = 0
    /\ UNCHANGED <<host, isLeader, config, event, nEvents, calls, statusCalls,
                   invalidFields, outcome, prevOutcome, raisedAt, status,
                   hadToInstall, published, proc, execResult>>

\* a relation is removed, and its data with it
RelationBroken ==
    /\ \E rel \in relations :
          /\ relations' = relations \ {rel}
          /\ published' = [published EXCEPT ![rel] = <<>>]
    /\ changed' = TRUE
    /\ streak' = 0
    /\ UNCHANGED <<host, isLeader, config, event, nEvents, calls, statusCalls,
                   invalidFields, outcome, prevOutcome, raisedAt, status,
                   hadToInstall, proc, execResult>>

NextN4 ==
    \/ Trigger
    \/ ConfigChange
    \/ LeaderChange
    \/ RelationJoined
    \/ RelationBroken

SpecN4 == InitN4 /\ [][NextN4]_vars

----------------------------------------------------------------------------
(* External commands run through Machine.exec.  The charm itself runs     *)
(* none, so the charm stays as it starts.                                  *)

InitExec ==
    /\ host \in { h \in Hosts : h.snapState = "available" /\ ~h.fileExists }
    /\ isLeader = TRUE
    /\ config = <<>>
    /\ event = "none"
    /\ nEvents = 0
    /\ calls = <<>>
    /\ statusCalls = <<>>
    /\ invalidFields = {}
    /\ outcome = "none"
    /\ prevOutcome = "none"
    /\ raisedAt = 0
    /\ status = "Unknown"
    /\ changed = FALSE
    /\ streak = 0
    /\ hadToInstall = FALSE
    /\ relations = {}
    /\ published = [rel \in Relations |-> <<>>]
    /\ proc = NoProc
    /\ execResult = NoResult

\* Machine.exec
Exec ==
    /\ proc.state = "none"
    /\ \E command \in Commands, timeout \in Timeouts, duration \in 1..MaxDuration,
          exitCode \in ExitCodes, out \in Outputs :
          proc' = exec(command, timeout, duration, exitCode, out)
    /\ UNCHANGED <<host, isLeader, config, event, nEvents, calls, statusCalls,
                   invalidFields, outcome, prevOutcome, raisedAt, status,
                   changed, streak, hadToInstall, relations, published,
                   execResult>>

\* ExecProcess.wait_output
WaitOutput ==
    /\ proc.state = "running"
    /\ \E expired \in BOOLEAN :
          /\ proc' = wait_output(proc, expired).proc
          /\ execResult' = wait_output(proc, expired).result
    /\ UNCHANGED <<host, isLeader, config, event, nEvents, calls, statusCalls,
                   invalidFields, outcome, prevOutcome, raisedAt, status,
                   changed, streak, hadToInstall, relations, published>>

NextExec ==
    \/ Exec
    \/ WaitOutput

SpecExec == InitExec /\ [][NextExec]_vars

----------------------------------------------------------------------------
(* Properties *)

\* the names of the calls of a call list, in order
Ops(cs) == [i \in 1..Len(cs) |-> cs[i].op]

IsMutating(c) == c.op \in {"ensure", "hold", "push", "start"}

\* the host-mutating calls of a call list, in order
Mutating(cs) == SelectSeq(cs, IsMutating)

Has(cs, op) == \E i \in 1..Len(cs) : cs[i].op = op

Count(cs, op) == Cardinality({ i \in 1..Len(cs) : cs[i].op = op })

\* this step dispatches an event
IsDispatch == nEvents' = nEvents + 1

FreshHost(h) == h.snapState = "available" /\ ~h.fileExists /\ ~h.serviceActive

IsInstall(c) == c.op = "ensure"
IsWrite(c) == c.op = "push"
IsStart(c) == c.op = "start"
IsInstallWriteStart(c) == IsInstall(c) \/ IsWrite(c) \/ IsStart(c)

\* C1: a reconcile pass of a leader with a valid configuration on a fresh
\* host (snap not installed, no config file, service inactive), in which no
\* host call fails, calls install, config-file write and service start in
\* that order, each exactly once.
C1_Ordering ==
    [][ (IsDispatch /\ outcome' = "converged" /\ FreshHost(host))
        => Ops(SelectSeq(calls', IsInstallWriteStart)) = <<"ensure", "push", "start">>
      ]_vars

C1_Witness ==
    /\ outcome = "converged"
    /\ ~changed
    /\ Ops(Mutating(calls)) = <<"ensure", "hold", "push", "start">>
    /\ ~Has(calls, "pull")

\* C2: an event dispatched while the charm configuration is invalid makes no
\* host-mutating call (install, pin, write, start), whatever the host state
\* and the leadership, leaves the host as it was and ends without an
\* exception.
C2_FailClosed ==
    [][ (IsDispatch /\ from_charm_raises(config))
        => /\ Mutating(calls' \o statusCalls') = <<>>
           /\ outcome' = "not_observed"
           /\ raisedAt' = 0
           /\ host' = host
      ]_vars

C2_Witness ==
    /\ event = "config_changed"
    /\ ~changed
    /\ from_charm_raises(config)
    /\ "core-ip" \in DOMAIN config
    /\ isLeader
    /\ FreshHost(host)
    /\ outcome = "not_observed"

\* C3: a reconcile pass that follows a completed reconcile pass, with no
\* change of host, leadership or configuration in between, makes no
\* host-mutating call.
C3_Idempotence ==
    [][ (IsDispatch /\ streak >= 1 /\ event' = "config_changed")
        => Mutating(calls') = <<>>
      ]_vars

C3_Witness ==
    /\ streak = 2
    /\ outcome = "converged"
    /\ Ops(calls) = <<"state", "exists", "pull", "services">>

StatusOf(leader, fileExists) ==
    IF ~leader THEN "Blocked"
    ELSE IF ~fileExists THEN "Waiting"
    ELSE "Active"

\* C4: whenever the status is collected it is Blocked for a non-leader,
\* Waiting for a leader without config file and Active for a leader with
\* config file, whatever the configuration, the snap and the service.
C4_Status ==
    (nEvents > 0 /\ ~changed /\ outcome # "crashed")
        => status = StatusOf(isLeader, host.fileExists)

C4_Witness ==
    /\ nEvents > 0
    /\ ~changed
    /\ status = "Active"
    /\ from_charm_raises(config)
    /\ host.snapState = "available"
    /\ ~host.serviceActive

\* C5: in a reconcile pass the call that fails is the last host call of the
\* pass and was made once: after a failed install there is no pin, write or
\* start, after a failed pin no write or start, after a failed write no
\* start.
C5_Abort ==
    raisedAt # 0
        => /\ raisedAt = Len(calls)
           /\ IsMutating(calls[raisedAt])
           /\ Count(calls, calls[raisedAt].op) = 1
           /\ Has(calls, "ensure") /\ calls[raisedAt].op = "ensure"
                => ~Has(calls, "hold") /\ ~Has(calls, "push") /\ ~Has(calls, "start")
           /\ calls[raisedAt].op = "hold"
                => ~Has(calls, "push") /\ ~Has(calls, "start")
           /\ calls[raisedAt].op = "push" => ~Has(calls, "start")

C5_Witness ==
    /\ raisedAt # 0
    /\ outcome = "crashed"
    /\ calls[raisedAt].op = "ensure"
    /\ ~host.fileExists
    /\ ~host.serviceActive
    /\ ~changed

\* the decoded structures of two texts are equal
Equivalent(a, b) ==
    /\ ~safe_load(a).err
    /\ ~safe_load(b).err
    /\ safe_load(a).doc = safe_load(b).doc

\* this step runs _generate_config_file
RunsGenerate == IsDispatch /\ Has(calls', "exists")

\* the call that raised in the pass made by this step, "none" if none did
RaisedOp == IF raisedAt' = 0 THEN "none" ELSE calls'[raisedAt'].op

\* C6: when the config file exists and its content decodes to the same
\* structure as the rendered artifact, whatever its whitespace and key
\* order, _generate_config_file does not write and leaves the file as it is.
C6_EquivalentNoWrite ==
    [][ (RunsGenerate /\ host.fileExists /\ Equivalent(host.fileContent, Rendered))
        => /\ ~Has(calls', "push")
           /\ host'.fileContent = host.fileContent
      ]_vars

C6_Witness ==
    /\ outcome = "converged"
    /\ ~changed
    /\ Has(calls, "pull")
    /\ ~Has(calls, "push")
    /\ host.fileExists
    /\ host.fileContent # Rendered
    /\ host.fileContent[1].k # Rendered[1].k

\* C7: when the config file is absent or its content is not equivalent to
\* the rendered artifact, _generate_config_file writes exactly once, to
\* /var/snap/eupf/common/config.yaml, the whole rendered artifact; unless
\* that write fails, the file then exists and is equivalent to the rendered
\* artifact.
C7_Write ==
    [][ (RunsGenerate /\ (~host.fileExists \/ ~Equivalent(host.fileContent, Rendered)))
        => /\ SelectSeq(calls', IsWrite) =
                <<Call("push", [path |-> <<"/var/snap/eupf/common", "config.yaml">>,
                                source |-> Rendered])>>
           /\ RaisedOp # "push"
                => host'.fileExists /\ Equivalent(host'.fileContent, Rendered)
      ]_vars

C7_Witness ==
    /\ outcome = "converged"
    /\ ~changed
    /\ Ops(calls) = <<"state", "exists", "pull", "push", "services">>
    /\ host.fileContent = Rendered

\* this step runs _install_eupf_snap
RunsInstall == IsDispatch /\ Has(calls', "state")

\* C8: when the snap is already in the desired state (latest),
\* _install_eupf_snap makes no install and no pin call; otherwise it makes
\* one install call, at channel "edge", and, only if that call succeeded,
\* one pin call right after it.
C8_Install ==
    [][ RunsInstall
        => IF host.snapState = "latest"
           THEN ~Has(calls', "ensure") /\ ~Has(calls', "hold")
           ELSE /\ Count(calls', "ensure") = 1
                /\ calls'[2] = Call("ensure", [state |-> "latest", channel |-> "edge"])
                /\ IF RaisedOp = "ensure"
                   THEN ~Has(calls', "hold")
                   ELSE /\ Count(calls', "hold") = 1
                        /\ calls'[3].op = "hold"
                        /\ host'.snapState = "latest"
                        /\ host'.snapChannel = "edge"
      ]_vars

C8_Witness ==
    /\ outcome = "converged"
    /\ ~changed
    /\ Has(calls, "ensure")
    /\ Has(calls, "hold")
    /\ host.snapState = "latest"
    /\ host.snapChannel = "edge"
    /\ host.snapHeld

\* this step runs _start_eupf_service
RunsStart == IsDispatch /\ Has(calls', "services")

\* C9: when the service eupf reports active, _start_eupf_service issues no
\* start; when it reports inactive, it issues exactly one start, for the
\* service eupf, and makes no host call after it.
C9_Start ==
    [][ RunsStart
        => IF host.serviceActive
           THEN ~Has(calls', "start")
           ELSE /\ Count(calls', "start") = 1
                /\ calls'[Len(calls')] = Call("start", <<"eupf">>)
                /\ calls'[Len(calls') - 1].op = "services"
      ]_vars

C9_Witness ==
    /\ outcome = "converged"
    /\ ~changed
    /\ Count(calls, "start") = 1
    /\ calls[Len(calls)].op = "start"
    /\ host.serviceActive

\* C10: an event handled by a non-leader unit makes no host call at all and
\* leaves the host as it was, whatever the configuration and the host state.
C10_LeaderGate ==
    [][ (IsDispatch /\ ~isLeader)
        => /\ calls' = <<>>
           /\ statusCalls' = <<>>
           /\ raisedAt' = 0
           /\ host' = host
      ]_vars

C10_Witness ==
    /\ outcome = "not_leader"
    /\ event = "config_changed"
    /\ ~changed
    /\ ~isLeader
    /\ ~from_charm_raises(config)
    /\ FreshHost(host)
    /\ calls = <<>>

\* the raw address is an IPv4 network: four octets in 0..255 and, when a
\* prefix length is given, one in 0..32
IsIpNetwork(value) ==
    /\ Len(value.octets) = 4
    /\ \A i \in 1..4 : value.octets[i] \in 0..255
    /\ value.prefix \in -1..32

\* C11: the configuration validated at an event is invalid, with the field
\* core-ip named among the fields in error, when core-ip is missing or is
\* not an IP network (address or CIDR); it is valid, with no field in
\* error, when core-ip is an IP network and external-upf-hostname is absent
\* or a string.
C11_Validation ==
    [][ IsDispatch
        => IF "core-ip" \in DOMAIN config /\ IsIpNetwork(config["core-ip"])
           THEN invalidFields' = {} /\ "config_changed" \in Observed(config)
           ELSE "core-ip" \in invalidFields' /\ "config_changed" \notin Observed(config)
      ]_vars

C11_Witness ==
    /\ nEvents > 0
    /\ ~changed
    /\ invalidFields = {}
    /\ "core-ip" \in DOMAIN config
    /\ config["core-ip"].prefix = 24
    /\ "external-upf-hostname" \in DOMAIN config

\* C12: a reconcile pass of a leader with a valid configuration in which no
\* host call fails ends, from any host state, with the snap installed (at
\* channel "edge" and pinned if the pass had to install it), the config file
\* present and equivalent to the rendered artifact, and the service already
\* active or a start issued; the status collected right after is Active.
C12_Convergence ==
    [][ (IsDispatch /\ outcome' = "converged")
        => /\ host'.snapState = "latest"
           /\ Has(calls', "ensure") => host'.snapChannel = "edge" /\ host'.snapHeld
           /\ host'.fileExists
           /\ Equivalent(host'.fileContent, Rendered)
           /\ host.serviceActive \/ Has(calls', "start")
           /\ host'.serviceActive
           /\ status' = "Active"
      ]_vars

C12_Witness ==
    /\ outcome = "converged"
    /\ ~changed
    /\ Ops(Mutating(calls)) = <<"ensure", "hold", "push", "start">>
    /\ Has(calls, "pull")
    /\ status = "Active"
    /\ host.snapHeld
    /\ host.serviceActive

\* this step collects the status and runs no handler, right after a
\* reconcile pass that a failing host call aborted
QueryAfterAbort ==
    /\ outcome = "crashed"
    /\ ~changed
    /\ IsDispatch
    /\ event' # "config_changed"

\* C13 as stated: the status collected next after an aborted reconcile pass
\* is not Active.
C13_Original == [][ QueryAfterAbort => status' # "Active" ]_vars

\* C13: the status collected next after an aborted reconcile pass, with no
\* change in between, is Waiting when the config file is absent and Active
\* when it is present.
C13_StatusAfterAbort ==
    [][ QueryAfterAbort
        => status' = IF host.fileExists THEN "Active" ELSE "Waiting"
      ]_vars

C13_Witness ==
    /\ prevOutcome = "crashed"
    /\ outcome = "not_observed"
    /\ ~changed
    /\ status = "Active"
    /\ host.snapState = "available"
    /\ ~host.serviceActive

\* the hostname the claim expects: the configured external hostname when
\* one is set, the core address otherwise
ExpectedHostname ==
    IF "external-upf-hostname" \in DOMAIN config
    THEN config["external-upf-hostname"]
    ELSE config["core-ip"]

\* C14: when a leader with a valid configuration handles an event,
\* {hostname, port 8805} is published once to each attached fiveg_n4
\* relation, and nothing is published to any other.
C14_Publication ==
    [][ (IsDispatch /\ isLeader /\ ~from_charm_raises(config))
        => \A rel \in Relations :
              published'[rel] =
                 IF rel \in relations
                 THEN Append(published[rel], [upf_hostname |-> ExpectedHostname,
                                              upf_n4_port |-> 8805])
                 ELSE published[rel]
      ]_vars

\* C15: collecting the status makes no host-mutating call, and an event
\* that only collects the status (no handler runs), the first event
\* included, sets a status and leaves the host as it was.
C15_StatusReadOnly ==
    [][ IsDispatch
        => /\ Mutating(statusCalls') = <<>>
           /\ \A i \in 1..Len(statusCalls') : statusCalls'[i].op = "exists"
           /\ outcome' = "not_observed"
                => /\ calls' = <<>>
                   /\ host' = host
                   /\ status' \in {"Blocked", "Waiting", "Active"}
      ]_vars

C15_Witness ==
    /\ nEvents = 1
    /\ event = "update_status"
    /\ ~changed
    /\ ~from_charm_raises(config)
    /\ status = "Waiting"
    /\ Ops(statusCalls) = <<"exists">>
    /\ FreshHost(host)

\* C16 as stated: when a host call fails during a reconcile pass, the
\* handler still ends without an uncaught exception.
C16_Original ==
    [][ (IsDispatch /\ raisedAt' # 0) => outcome' # "crashed" ]_vars

\* C16: when install, pin, write or start fails during a reconcile pass, the
\* exception escapes the handler, the run of that event ends in error and
\* collects no status; a reconcile trigger that follows and hits no failure
\* is handled to the end.
C16_ErrorEscapes ==
    [][ IsDispatch
        => /\ raisedAt' # 0
                => /\ outcome' = "crashed"
                   /\ calls'[raisedAt'].op \in {"ensure", "hold", "push", "start"}
                   /\ statusCalls' = <<>>
                   /\ status' = status
           /\ (outcome = "crashed" /\ ~changed /\ event' = "config_changed"
               /\ raisedAt' = 0)
                => outcome' = "converged" /\ status' = "Active"
      ]_vars

C16_Witness ==
    /\ prevOutcome = "crashed"
    /\ outcome = "crashed"
    /\ ~changed
    /\ raisedAt # 0
    /\ calls[raisedAt].op = "start"
    /\ status = "Unknown"

\* the host is converged: snap installed, and pinned if the charm had to
\* install it, config file present and equivalent to the rendered artifact,
\* service active
Converged(h, installedHere) ==
    /\ h.snapState = "latest"
    /\ installedHere => h.snapHeld
    /\ h.fileExists
    /\ Equivalent(h.fileContent, Rendered)
    /\ h.serviceActive

\* the call list holds a call of this name that did not raise
Completed(cs, at, op) == \E i \in 1..Len(cs) : cs[i].op = op /\ i # at

\* C17: the reconcile pass that follows an aborted pass, with no change in
\* between and no failure of its own, does not redo an install or a write
\* that the aborted pass completed, makes only the calls the host still
\* needs, and ends converged.
C17_Resume ==
    [][ (outcome = "crashed" /\ ~changed /\ IsDispatch
         /\ event' = "config_changed" /\ raisedAt' = 0)
        => /\ Completed(calls, raisedAt, "ensure") => ~Has(calls', "ensure")
           /\ Completed(calls, raisedAt, "push") => ~Has(calls', "push")
           /\ Has(calls', "ensure") <=> host.snapState # "latest"
           /\ Has(calls', "push") <=>
                ~(host.fileExists /\ Equivalent(host.fileContent, Rendered))
           /\ Has(calls', "start") <=> ~host.serviceActive
           /\ Converged(host', hadToInstall')
      ]_vars

\* C18: once a reconcile pass had to install the snap, the snap is pinned at
\* the end of every later reconcile pass that completes without failure.
C18_Pinned ==
    (hadToInstall /\ outcome = "converged" /\ ~changed) => host.snapHeld

\* C19: when the config file exists and its content does not parse,
\* _generate_config_file does not raise at the comparison: it writes the
\* rendered artifact, once, and unless that write fails the file is then
\* equivalent to the rendered artifact and the pass goes on to
\* _start_eupf_service.
C19_DecodeError ==
    [][ (RunsGenerate /\ host.fileExists /\ safe_load(host.fileContent).err)
        => /\ Ops(SelectSeq(calls', IsWrite)) = <<"push">>
           /\ \A i \in 1..Len(calls') :
                 calls'[i].op = "push" => calls'[i].arg.source = Rendered
           /\ calls'[Len(calls')].op # "pull"
           /\ RaisedOp # "push"
                => /\ Equivalent(host'.fileContent, Rendered)
                   /\ Has(calls', "services")
      ]_vars

C19_Witness ==
    /\ outcome = "crashed"
    /\ ~changed
    /\ host.fileExists
    /\ safe_load(host.fileContent).err
    /\ Ops(calls) = <<"state", "exists", "pull", "push">>
    /\ raisedAt = 4

\* C20: every event, of whatever kind, handled by a leader with a valid
\* configuration runs the reconcile pass, so that, when no host call fails,
\* the host is converged after it (a removed config file is written again, a
\* stopped service is started again).
C20_EveryTrigger ==
    [][ (IsDispatch /\ isLeader /\ ~from_charm_raises(config))
        => /\ outcome' \in {"converged", "crashed"}
           /\ raisedAt' = 0 => Converged(host', FALSE)
      ]_vars

\* this step is a call of wait_output
IsWaitOutput == proc.state = "running" /\ proc'.state # "running"

\* C21: wait_output of a command that is still running when its timeout is
\* over kills the process (once, without starting it again) and raises a
\* TimeoutError that carries no output and is not the ExecError of a
\* non-zero exit; of a command that ended in time with a non-zero exit code
\* it raises an ExecError carrying that exit code; it returns the output
\* only for a command that ended in time with exit code 0.
C21_WaitOutput ==
    [][ IsWaitOutput
        => /\ proc'.spawns = 1
           /\ (proc.timeout.set /\ proc.duration > proc.timeout.secs)
                => /\ execResult'.kind = "TimeoutError"
                   /\ execResult'.stdout = ""
                   /\ proc'.state = "killed"
                   /\ proc'.kills = 1
           /\ (~proc.timeout.set \/ proc.duration < proc.timeout.secs)
                => /\ proc'.state = "exited"
                   /\ proc'.kills = 0
                   /\ IF proc.exitCode # 0
                      THEN /\ execResult'.kind = "ExecError"
                           /\ execResult'.exit_code = proc.exitCode
                      ELSE /\ execResult'.kind = "returned"
                           /\ execResult'.stdout = proc.out
           /\ execResult'.kind \in {"TimeoutError", "ExecError", "returned"}
           /\ execResult'.kind = "TimeoutError" <=> proc'.state = "killed"
           /\ execResult'.kind = "returned"
                => /\ proc'.state = "exited"
                   /\ proc'.returncode = 0
                   /\ proc.exitCode = 0
      ]_vars

C21_Witness ==
    /\ execResult.kind = "TimeoutError"
    /\ proc.state = "killed"
    /\ proc.kills = 1
    /\ proc.exitCode = 0
    /\ proc.duration > proc.timeout.secs

====
